---- MODULE Spec2Model ----
(***************************************************************************)
(* State-machine model of src/index.js: an Express service that issues    *)
(* one-time passcodes over WhatsApp (POST /send-otp) and validates them   *)
(* (POST /validate-otp) against a MongoDB collection with a TTL index.    *)
(*                                                                         *)
(* Every async handler is split at its awaits: the synchronous prefix is  *)
(* one action, and the continuation after each awaited promise is one     *)
(* action per outcome (resolved / rejected).  Time is counted in seconds. *)
(***************************************************************************)
EXTENDS Integers, Sequences, FiniteSets, TLC

VARIABLES
    isClientReady,  \* let isClientReady (line 50)
    now,            \* wall clock, seconds
    store,          \* documents of the OTP collection
    nextId,         \* next _id handed out by new OTP(...)
    hits,           \* otpLimiter: requests counted per source in this window
    send,           \* POST /send-otp handlers suspended at an await
    validate,       \* POST /validate-otp handlers suspended at an await
    outbox,         \* calls to client.sendMessage not yet settled
    reply,          \* how the handler that ended last answered
    outcome,        \* history: how the request of each stored document ended
    consumed,       \* history: _ids validated with success that a request
                    \*   still in flight has matched too
    spent           \* history: pairs validated with success since they were
                    \*   last saved, of which a document is still stored

vars == <<isClientReady, now, store, nextId, hits, send, validate, outbox,
          reply, outcome, consumed, spent>>

history == <<outcome, consumed, spent>>

----------------------------------------------------------------------------
(* Bounds of the model *)

MaxRecords == 2         \* OTP documents constructed in one behaviour
MaxTicks == 1           \* clock steps in one behaviour

SendSlots == {1}        \* /send-otp requests that may be in flight together
ValidateSlots == {1, 2} \* /validate-otp requests that may be in flight together
RecordIds == 1..MaxRecords

Sources == {"10.0.0.1", "10.0.0.2"}
Phones == {"01000000001", "01000000002"}

\* A field of req.body: absent (has = FALSE) or a string
Absent == [has |-> FALSE, v |-> ""]
Str(s) == [has |-> TRUE, v |-> s]

----------------------------------------------------------------------------
(* Program constants *)

windowMs == 15 * 60 * 1000
max == 15
expires == 300

\* Seconds the clock advances in one step
TickStep == expires

----------------------------------------------------------------------------
(* Pure helpers *)

\* JavaScript truthiness of a body field: undefined and "" are falsy
Falsy(f) == ~f.has \/ f.v = ""

\* String.prototype.includes
Includes(s, t) ==
    \E i \in 1..(Len(s) - Len(t) + 1) : SubSeq(s, i, i + Len(t) - 1) = t

DigitChar(d) ==
    CASE d = 0 -> "0" [] d = 1 -> "1" [] d = 2 -> "2" [] d = 3 -> "3"
      [] d = 4 -> "4" [] d = 5 -> "5" [] d = 6 -> "6" [] d = 7 -> "7"
      [] d = 8 -> "8" [] d = 9 -> "9"

\* Number.prototype.toString for a non-negative integer
RECURSIVE NumToString(_)
NumToString(n) ==
    IF n < 10 THEN DigitChar(n)
    ELSE NumToString(n \div 10) \o DigitChar(n % 10)

\* The values Math.random() takes, in RandomSteps-ths
RandomValues == {0, 1}
RandomSteps == Cardinality(RandomValues)

\* Math.random() returns n / RandomDen for some n in 0..(RandomDen - 1):
\* a value in [0, 1)
RandomHalf == 32768
RandomDen == 32 * RandomHalf

\* Variant of FloorScaled: Math.ceil in place of Math.floor
CeilScaled(n) ==
    LET hi == n \div RandomHalf
        lo == n % RandomHalf
    IN  hi * 28125 + (lo * 28125 + RandomHalf - 1) \div RandomHalf

\* Math.floor((n / RandomDen) * 900000); 900000 / RandomDen is
\* 28125 / RandomHalf, and the high part of n contributes a whole number
FloorScaled(n) ==
    LET hi == n \div RandomHalf
        lo == n % RandomHalf
    IN  hi * 28125 + (lo * 28125) \div RandomHalf

\* Math.floor(100000 + Math.random() * 900000).toString(),
\* with Math.random() = n / RandomDen
OtpOf(n) == NumToString(100000 + FloorScaled(n))

\* Math.random() = k / RandomSteps, as a count of RandomDen-ths
RandomOf(k) == k * (RandomDen \div RandomSteps)

GenerateOtp(k) == OtpOf(RandomOf(k))

Codes == {GenerateOtp(k) : k \in RandomValues}

\* `2${phoneNumber}@c.us`
FormattedNumber(phoneNumber) == "2" \o phoneNumber \o "@c.us"

\* `Your OTP is: ${otp}`
OtpMessage(otp) == "Your OTP is: " \o otp

----------------------------------------------------------------------------
(* Responses *)

NoResponse == [status |-> 0, key |-> "", text |-> ""]

\* res.json({ success: true, message })
JsonSuccess(message) == [status |-> 200, key |-> "message", text |-> message]
\* res.status(status).json({ error })
JsonError(status, error) == [status |-> status, key |-> "error", text |-> error]

RateLimitExceeded == [status |-> 429, key |-> "text",
                      text |-> "Too many OTP requests, please try again later."]
ChannelNotReady == JsonError(500, "WhatsApp client is not ready")
PhoneRequired == JsonError(400, "Phone number is required")
RecipientNotRegistered == JsonError(400, "Recipient is not registered on WhatsApp")
DispatchFailed == JsonError(500, "Failed to send OTP")
ValidateInputRequired == JsonError(400, "Phone number and OTP are required")
InvalidOrExpiredOtp == JsonError(400, "Invalid OTP or OTP expired")

\* Variant of SendSuccess: the message quotes the code
SendSuccessQuotingOtp(otp) == JsonSuccess("OTP sent successfully: " \o otp)

\* The bodies of the two success responses; otp is the code in scope
SendSuccess(otp) == JsonSuccess("OTP sent successfully")
ValidateSuccess(otp) == JsonSuccess("OTP is valid")

\* The response of the catch block of /send-otp
SendFailure(message, otp) ==
    IF Includes(message, "not registered")
    THEN RecipientNotRegistered
    ELSE DispatchFailed

\* Messages of the errors client.sendMessage rejects with
SendErrors == {"Evaluation failed: number not registered", "Protocol error: Target closed"}

----------------------------------------------------------------------------
(* Requests *)

IdleSend == [pc |-> "idle", phoneNumber |-> "", otp |-> "", id |-> 0, createdAt |-> 0]

NoRecord == [id |-> 0, phoneNumber |-> "", otp |-> "", createdAt |-> 0]

IdleValidate == [pc |-> "idle", phoneNumber |-> "", otp |-> "", startedAt |-> 0,
                 rec |-> NoRecord, later |-> FALSE, stale |-> FALSE]

\* How the handler that ended last answered: the endpoint or the client
\* event, the response (NoResponse when the handler ended without writing
\* one) and notes on what the request or event was and what it met:
\*   "failed"       the 'ready' event came directly after 'auth_failure'
\*   "falsy"        req.body.phoneNumber of a send request was falsy
\*   "first"        the lookup met a document issued with success, not yet
\*                  due for removal, whose pair was not validated since
\*   "later"        the lookup followed a successful validation of the pair,
\*                  with no document of the pair saved in between and no send
\*                  request of the pair in flight
\*   "stale"        the only document matching was due for removal when the
\*                  request arrived
\*   "undelivered"  the dispatch of the document matched had been rejected
\*   "again"        the document matched had been validated with success
\*   "other"        the code was stored, but only under other phone numbers
\*   "miscoded"     no document matched, and one of the request's phone
\*                  number, with another code, was stored
\*   "issued"       the document matched had been issued with success
\*   "sibling"      a document of the same phone number with another code,
\*                  issued with success, is stored after the deletion
NoReply == [op |-> "", res |-> NoResponse, notes |-> {}]

Reply(op, res, notes) == [op |-> op, res |-> res, notes |-> notes]

Note(cond, note) == IF cond THEN {note} ELSE {}

Init ==
    /\ isClientReady = FALSE
    /\ now = 0
    /\ store = {}
    /\ nextId = 1
    /\ hits = [s \in Sources |-> 0]
    /\ send = [i \in SendSlots |-> IdleSend]
    /\ validate = [v \in ValidateSlots |-> IdleValidate]
    /\ outbox = {}
    /\ reply = NoReply
    /\ outcome = [id \in RecordIds |-> "none"]
    /\ consumed = {}
    /\ spent = {}

----------------------------------------------------------------------------
(* WhatsApp client events *)

\* Variant of ReadyAfter: 'ready' directly after 'auth_failure' is ignored
ReadyUnlessFailed(ready, last) == IF last = "auth_failure" THEN ready ELSE TRUE

\* isClientReady once the 'ready' handler has run; `last` is the event or
\* endpoint handled before it
ReadyAfter(ready, last) == TRUE

OnReady ==
    /\ isClientReady' = ReadyAfter(isClientReady, reply.op)
    /\ reply' = Reply("ready", NoResponse, Note(reply.op = "auth_failure", "failed"))
    /\ UNCHANGED <<now, store, nextId, hits, send, validate, outbox, history>>

OnAuthFailure ==
    /\ isClientReady' = FALSE
    /\ reply' = Reply("auth_failure", NoResponse, {})
    /\ UNCHANGED <<now, store, nextId, hits, send, validate, outbox, history>>

OnDisconnected ==
    /\ isClientReady' = FALSE
    /\ reply' = Reply("disconnected", NoResponse, {})
    /\ UNCHANGED <<now, store, nextId, hits, send, validate, outbox, history>>

----------------------------------------------------------------------------
(* otpLimiter, mounted on /send-otp *)

\* The limiter's memory store counts requests per source and clears every
\* count each windowMs
Window(t) == (t * 1000) \div windowMs

\* The source's count once this request is added to it
HitsAfter(src) == hits[src] + 1

\* Variant of Limited: the request that reaches max is turned away too
LimitedAtMax(totalHits) == totalHits >= max

\* The request is answered by the limiter and never reaches the handler
Limited(totalHits) == totalHits > max

\* Variant of CallsNext: the route handler runs for every request
CallsNextAlways(limited) == TRUE

\* The limiter is mounted before the route: it passes the request on to the
\* route handler only when it has not answered it
CallsNext(limited) == ~limited

----------------------------------------------------------------------------
(* Clock and the TTL index on createdAt *)

Tick(ticks) ==
    /\ now + TickStep <= ticks * TickStep
    /\ now' = now + TickStep
    /\ hits' = IF Window(now') # Window(now) THEN [s \in Sources |-> 0] ELSE hits
    /\ reply' = NoReply
    /\ UNCHANGED <<isClientReady, store, nextId, send, validate, outbox, history>>

\* History: the pairs among `pairs` of which the collection holds a document
StillStored(pairs, coll) ==
    {pr \in pairs : \E rec \in coll : <<rec.phoneNumber, rec.otp>> = pr}

\* A document is due for removal once createdAt + expires has passed
Expired(rec, t) == t >= rec.createdAt + expires

\* MongoDB's TTL monitor runs in the background and removes, at some time
\* after they fall due, the documents that are due
TTLPurge ==
    /\ \E rec \in store : Expired(rec, now)
    /\ store' = {rec \in store : ~Expired(rec, now)}
    /\ outcome' = [id \in RecordIds |->
                     IF \E rec \in store' : rec.id = id THEN outcome[id] ELSE "none"]
    /\ spent' = StillStored(spent, store')
    /\ reply' = NoReply
    /\ UNCHANGED <<isClientReady, now, nextId, hits, send, validate, outbox, consumed>>

----------------------------------------------------------------------------
(* POST /send-otp *)

\* Variants of SendOtpPrecheck: without the readiness check, and with the two
\* checks in the other order
SendOtpPrecheckUngated(ready, phoneNumber) ==
    IF Falsy(phoneNumber) THEN PhoneRequired ELSE NoResponse

SendOtpPrecheckPhoneFirst(ready, phoneNumber) ==
    IF Falsy(phoneNumber) THEN PhoneRequired
    ELSE IF ~ready THEN ChannelNotReady
    ELSE NoResponse

\* The two early returns of the handler, in the order the handler makes them
SendOtpPrecheck(ready, phoneNumber) ==
    IF ~ready THEN ChannelNotReady
    ELSE IF Falsy(phoneNumber) THEN PhoneRequired
    ELSE NoResponse

Pair(r) == <<r.phoneNumber, r.otp>>

\* The request up to its first await: the limiter, the early returns, the
\* generation of the code and the construction of the document
PostSendOtp(i, src, phoneNumber, n, cap) ==
    /\ send[i].pc = "idle"
    /\ HitsAfter(src) <= cap
    /\ hits' = [hits EXCEPT ![src] = HitsAfter(src)]
    /\ LET early == SendOtpPrecheck(isClientReady, phoneNumber)
           notes == Note(Falsy(phoneNumber), "falsy")
       IN  IF ~CallsNext(Limited(HitsAfter(src)))
           THEN /\ reply' = Reply("send", RateLimitExceeded, notes)
                /\ UNCHANGED <<send, nextId>>
           ELSE IF early # NoResponse
           THEN /\ reply' = Reply("send", early, notes)
                /\ UNCHANGED <<send, nextId>>
           ELSE /\ nextId <= MaxRecords
                /\ send' = [send EXCEPT ![i] =
                              [pc |-> "save", phoneNumber |-> phoneNumber.v,
                               otp |-> OtpOf(n), id |-> nextId,
                               createdAt |-> now]]
                /\ nextId' = nextId + 1
                /\ reply' = NoReply
    /\ UNCHANGED <<isClientReady, now, store, validate, outbox, history>>

\* The document otpRecord.save() inserts
Document(r) == [id |-> r.id, phoneNumber |-> r.phoneNumber, otp |-> r.otp,
                createdAt |-> r.createdAt]

\* The call the handler makes after the save
Dispatch(r) == [id |-> r.id, to |-> FormattedNumber(r.phoneNumber),
                text |-> OtpMessage(r.otp)]

\* The calls to client.sendMessage a request makes once its save resolved
CallsAfterSave(r) == {Dispatch(r)}

\* Variant of StoreAfterSave: the handler goes on without awaiting the save
StoreAfterSaveNotAwaited(coll, r) == coll

\* What the collection holds when await otpRecord.save() returns
StoreAfterSave(coll, r) == coll \cup {Document(r)}

\* otpRecord.save() resolves: the document is in the collection and the
\* handler goes on to call client.sendMessage
SaveResolved(i) ==
    /\ send[i].pc = "save"
    /\ store' = StoreAfterSave(store, send[i])
    /\ outbox' = outbox \cup CallsAfterSave(send[i])
    /\ send' = [send EXCEPT ![i].pc = "send"]
    /\ outcome' = [outcome EXCEPT ![send[i].id] = "open"]
    /\ spent' = spent \ {Pair(send[i])}
    /\ reply' = NoReply
    /\ UNCHANGED <<isClientReady, now, nextId, hits, validate, consumed>>

\* otpRecord.save() rejects outside any try: the handler's promise rejects
\* and no response is written
SaveRejected(i) ==
    /\ send[i].pc = "save"
    /\ send' = [send EXCEPT ![i] = IdleSend]
    /\ reply' = Reply("send", NoResponse, {})
    /\ UNCHANGED <<isClientReady, now, store, nextId, hits, validate, outbox, history>>

\* History: the request of document id ended with `how`
Ended(o, coll, id, how) ==
    [o EXCEPT ![id] = IF \E rec \in coll : rec.id = id THEN how ELSE "none"]

\* What the collection holds after the try block completes normally
StoreAfterSent(coll, r) == coll

\* Variant of StoreAfterSendError: the catch block removes the document
StoreAfterSendErrorRolledBack(coll, r) == {rec \in coll : rec.id # r.id}

\* What the collection holds after the catch block
StoreAfterSendError(coll, r) == coll

\* Variant of CallsAfterSendError: the catch block sends the message again
CallsAfterSendErrorRetried(r) == {Dispatch(r)}

\* The calls to client.sendMessage the catch block makes
CallsAfterSendError(r) == {}

SendMessageResolved(i) ==
    /\ send[i].pc = "send"
    /\ send' = [send EXCEPT ![i] = IdleSend]
    /\ outbox' = {m \in outbox : m.id # send[i].id}
    /\ reply' = Reply("send", SendSuccess(send[i].otp), {})
    /\ store' = StoreAfterSent(store, send[i])
    /\ outcome' = Ended(outcome, store', send[i].id, "ok")
    /\ UNCHANGED <<isClientReady, now, nextId, hits, validate, consumed, spent>>

SendMessageRejected(i, message) ==
    /\ send[i].pc = "send"
    /\ send' = [send EXCEPT ![i] = IdleSend]
    /\ outbox' = {m \in outbox : m.id # send[i].id} \cup CallsAfterSendError(send[i])
    /\ reply' = Reply("send", SendFailure(message, send[i].otp), {})
    /\ store' = StoreAfterSendError(store, send[i])
    /\ outcome' = Ended(outcome, store', send[i].id, "failed")
    /\ UNCHANGED <<isClientReady, now, nextId, hits, validate, consumed, spent>>

----------------------------------------------------------------------------
(* POST /validate-otp *)

\* Variant of FindOne: the filter leaves the phone number out
FindOneByOtp(coll, phoneNumber, otp) == {rec \in coll : rec.otp = otp}

\* The documents OTP.findOne({ phoneNumber, otp }) may resolve to
FindOne(coll, phoneNumber, otp) ==
    {rec \in coll : rec.phoneNumber = phoneNumber /\ rec.otp = otp}

\* Variant of DeleteOne: the document and every older one are removed
DeleteOneAndOlder(coll, id) == {rec \in coll : rec.id > id}

\* OTP.deleteOne({ _id })
DeleteOne(coll, id) == {rec \in coll : rec.id # id}

ValidateInputMissing(phoneNumber, otp) == Falsy(phoneNumber) \/ Falsy(otp)

\* The request up to its first await
PostValidateOtp(v, phoneNumber, otp) ==
    /\ validate[v].pc = "idle"
    /\ IF ValidateInputMissing(phoneNumber, otp)
       THEN /\ reply' = Reply("validate", ValidateInputRequired, {})
            /\ UNCHANGED validate
       ELSE /\ validate' = [validate EXCEPT ![v] =
                              [IdleValidate EXCEPT !.pc = "find",
                                                   !.phoneNumber = phoneNumber.v,
                                                   !.otp = otp.v,
                                                   !.startedAt = now]]
            /\ reply' = NoReply
    /\ UNCHANGED <<isClientReady, now, store, nextId, hits, send, outbox, history>>

\* A document of the pair was issued with success, is not yet due for removal
\* and the pair has not been validated since
FirstFor(r) ==
    /\ Pair(r) \notin spent
    /\ \E rec \in store : /\ Pair(rec) = Pair(r)
                          /\ outcome[rec.id] = "ok"
                          /\ ~Expired(rec, now)

\* The pair was validated with success, no document of the pair was saved
\* since and no send request that generated the pair is in flight
LaterFor(r) ==
    /\ Pair(r) \in spent
    /\ \A i \in SendSlots : send[i].pc = "idle" \/ Pair(send[i]) # Pair(r)

\* The code of the request is stored, but under other phone numbers only
OtherOnly(r) ==
    /\ \E rec \in store : rec.otp = r.otp
    /\ \A rec \in store : rec.otp = r.otp => rec.phoneNumber # r.phoneNumber

\* History: the _ids among `ids` that a request in flight has matched
StillMatched(ids, requests) ==
    {id \in ids : \E w \in ValidateSlots :
                     requests[w].pc = "delete" /\ requests[w].rec.id = id}

\* A document of the request's phone number with another code, issued with
\* success, is in the collection
SiblingOf(r, coll) ==
    \E rec \in coll : /\ rec.phoneNumber = r.phoneNumber
                       /\ rec.otp # r.otp
                       /\ outcome[rec.id] = "ok"

\* Variant of StoreAfterNoMatch: a failed attempt removes the documents of
\* the phone number
StoreAfterNoMatchCleared(coll, r) ==
    {rec \in coll : rec.phoneNumber # r.phoneNumber}

\* What the collection holds after the early return on a null lookup
StoreAfterNoMatch(coll, r) == coll

\* OTP.findOne resolves, to null or to a matching document
FindOneResolved(v) ==
    /\ validate[v].pc = "find"
    /\ LET r == validate[v]
           found == FindOne(store, r.phoneNumber, r.otp)
       IN  IF found = {}
           THEN /\ validate' = [validate EXCEPT ![v] = IdleValidate]
                /\ reply' = Reply("validate", InvalidOrExpiredOtp,
                                  Note(FirstFor(r), "first")
                                    \cup Note(LaterFor(r), "later")
                                    \cup Note(OtherOnly(r), "other")
                                    \cup Note(\E rec \in store :
                                                 rec.phoneNumber = r.phoneNumber,
                                              "miscoded"))
                /\ store' = StoreAfterNoMatch(store, r)
           ELSE /\ \E rec \in found :
                    validate' = [validate EXCEPT
                        ![v].pc = "delete",
                        ![v].rec = rec,
                        ![v].startedAt = 0,
                        ![v].later = LaterFor(r),
                        ![v].stale = found = {rec} /\ Expired(rec, r.startedAt)]
                /\ reply' = NoReply
                /\ store' = store
    /\ UNCHANGED <<isClientReady, now, nextId, hits, send, outbox, history>>

\* OTP.findOne rejects outside any try: no response is written
FindOneRejected(v) ==
    /\ validate[v].pc = "find"
    /\ validate' = [validate EXCEPT ![v] = IdleValidate]
    /\ reply' = Reply("validate", NoResponse, {})
    /\ consumed' = StillMatched(consumed, validate')
    /\ UNCHANGED <<isClientReady, now, store, nextId, hits, send, outbox, outcome, spent>>

\* OTP.deleteOne resolves, whether or not the document was still there
DeleteOneResolved(v) ==
    /\ validate[v].pc = "delete"
    /\ LET r == validate[v]
       IN  /\ store' = DeleteOne(store, r.rec.id)
           /\ reply' = Reply("validate", ValidateSuccess(r.otp),
                             Note(r.later, "later")
                               \cup Note(r.stale, "stale")
                               \cup Note(outcome[r.rec.id] = "failed", "undelivered")
                               \cup Note(r.rec.id \in consumed, "again")
                               \cup Note(outcome[r.rec.id] = "ok", "issued")
                               \cup Note(SiblingOf(r, store'), "sibling"))
           /\ outcome' = [outcome EXCEPT ![r.rec.id] = "none"]
           /\ spent' = StillStored(spent \cup {Pair(r)}, store')
    /\ validate' = [validate EXCEPT ![v] = IdleValidate]
    /\ consumed' = StillMatched(consumed \cup {validate[v].rec.id}, validate')
    /\ UNCHANGED <<isClientReady, now, nextId, hits, send, outbox>>

\* OTP.deleteOne rejects outside any try: no response is written
DeleteOneRejected(v) ==
    /\ validate[v].pc = "delete"
    /\ validate' = [validate EXCEPT ![v] = IdleValidate]
    /\ reply' = Reply("validate", NoResponse, {})
    /\ consumed' = StillMatched(consumed, validate')
    /\ UNCHANGED <<isClientReady, now, store, nextId, hits, send, outbox, outcome, spent>>

----------------------------------------------------------------------------
(* Specifications *)

PhoneInputs == {Absent, Str("")} \cup {Str(p) : p \in Phones}
OtpInputs == {Absent} \cup {Str(c) : c \in Codes}

\* The phone numbers and values of Math.random() of the send requests: the
\* first phone number is issued every code, the second the first code only
SendInputs ==
    {io \in PhoneInputs \X RandomValues :
        io[1] = Str("01000000002") => io[2] = 0}

\* One request of each kind in flight, every input
Next ==
    \/ OnReady
    \/ OnAuthFailure
    \/ OnDisconnected
    \/ Tick(MaxTicks)
    \/ TTLPurge
    \/ \E src \in {"10.0.0.1"}, io \in SendInputs :
          PostSendOtp(1, src, io[1], RandomOf(io[2]), MaxRecords)
    \/ SaveResolved(1)
    \/ SaveRejected(1)
    \/ SendMessageResolved(1)
    \/ \E m \in SendErrors : SendMessageRejected(1, m)
    \/ \E p \in PhoneInputs, c \in OtpInputs : PostValidateOtp(1, p, c)
    \/ FindOneResolved(1)
    \/ FindOneRejected(1)
    \/ DeleteOneResolved(1)
    \/ DeleteOneRejected(1)

Spec == Init /\ [][Next]_vars

\* Two validate requests in flight together, over one phone number and one code
NextRace ==
    \/ OnReady
    \/ OnAuthFailure
    \/ OnDisconnected
    \/ Tick(MaxTicks)
    \/ TTLPurge
    \/ \E p \in {Absent, Str("01000000001")} :
          PostSendOtp(1, "10.0.0.1", p, RandomOf(0), MaxRecords)
    \/ SaveResolved(1)
    \/ SaveRejected(1)
    \/ SendMessageResolved(1)
    \/ \E m \in SendErrors : SendMessageRejected(1, m)
    \/ \E v \in ValidateSlots, c \in {Absent, Str(GenerateOtp(0))} :
          PostValidateOtp(v, Str("01000000001"), c)
    \/ \E v \in ValidateSlots : FindOneResolved(v)
    \/ \E v \in ValidateSlots : FindOneRejected(v)
    \/ \E v \in ValidateSlots : DeleteOneResolved(v)
    \/ \E v \in ValidateSlots : DeleteOneRejected(v)

SpecRace == Init /\ [][NextRace]_vars

\* The send path alone, over a whole window of the limiter: one source goes
\* past the limit, the other makes a single request
LimiterCap == max + 2
LimiterTicks == (windowMs \div 1000) \div TickStep

NextLimiter ==
    \/ OnReady
    \/ OnAuthFailure
    \/ OnDisconnected
    \/ Tick(LimiterTicks)
    \/ \E p \in {Absent, Str("01000000001")} :
          \/ PostSendOtp(1, "10.0.0.1", p, RandomOf(0), LimiterCap)
          \/ PostSendOtp(1, "10.0.0.2", p, RandomOf(0), 1)
    \/ SaveResolved(1)
    \/ SaveRejected(1)
    \/ SendMessageResolved(1)
    \/ \E m \in SendErrors : SendMessageRejected(1, m)

SpecLimiter == Init /\ [][NextLimiter]_vars

\* The send path alone, with Math.random() at both ends of [0, 1), next to
\* them and spread in between
RandomEdge == 2
RandomInputs ==
    (0..RandomEdge) \cup ((RandomDen - 1 - RandomEdge)..(RandomDen - 1))
        \cup {RandomOf(1) - 1, RandomOf(1)} \cup {j * 99991 : j \in 1..10}

NextGenerator ==
    \/ OnReady
    \/ OnAuthFailure
    \/ OnDisconnected
    \/ \E p \in {Absent, Str("01000000001")}, n \in RandomInputs :
          PostSendOtp(1, "10.0.0.1", p, n, MaxRecords)
    \/ SaveResolved(1)
    \/ SaveRejected(1)
    \/ SendMessageResolved(1)
    \/ \E m \in SendErrors : SendMessageRejected(1, m)

SpecGenerator == Init /\ [][NextGenerator]_vars

TypeOK ==
    /\ isClientReady \in BOOLEAN
    /\ nextId \in 1..(MaxRecords + 1)
    /\ \A rec \in store : rec.id \in RecordIds /\ rec.otp \in Codes
    /\ \A i \in SendSlots : send[i].pc \in {"idle", "save", "send"}
    /\ \A v \in ValidateSlots : validate[v].pc \in {"idle", "find", "delete"}
    /\ spent \subseteq Phones \X Codes
    /\ consumed \subseteq RecordIds

----------------------------------------------------------------------------
(* Steps, as the properties below recognise them *)

\* A request entered POST /send-otp: the limiter counted it
SendOtpStep == \E src \in Sources : hits' = [hits EXCEPT ![src] = @ + 1]

\* The handler of POST /send-otp ran (the limiter let the request through)
HandlerStep == SendOtpStep /\ reply'.res # RateLimitExceeded

\* The step neither constructed a document nor asked for a dispatch
NoIssueEffect ==
    /\ store' = store
    /\ outbox' = outbox
    /\ send' = send
    /\ nextId' = nextId

----------------------------------------------------------------------------
(* C1 - single use, in sequence *)

\* C1: a validate(p, c) that meets a document issued with success before it is
\* due, with no validation of the pair since, is not answered
\* InvalidOrExpiredOtp, and every validate(p, c) whose lookup follows a
\* successful validate(p, c), with no document of the pair saved in between and
\* no issue of the pair in flight, is answered InvalidOrExpiredOtp - also when
\* an earlier issue(p) generated the same code c.
C1_ValidateOnceThenInvalid ==
    reply.op = "validate" /\ reply.res # NoResponse =>
        /\ "first" \in reply.notes => reply.res # InvalidOrExpiredOtp
        /\ "later" \in reply.notes => reply.res = InvalidOrExpiredOtp

----------------------------------------------------------------------------
(* C2 - single use, interleaved *)

\* C2: each stored document accounts for at most one successful validation:
\* no validate request is answered with success for a document that another
\* validate request was already answered with success for.
C2_OneSuccessPerRecord ==
    reply.res = ValidateSuccess("") => "again" \notin reply.notes

----------------------------------------------------------------------------
(* C3 - expiry without the purge *)

\* C3: a validate(p, c) that arrives at or after createdAt + 300 seconds of the
\* only matching document is answered InvalidOrExpiredOtp, whether or not the
\* TTL monitor has removed the document yet: it is never answered with success.
C3_ExpiredNeverValid ==
    "stale" \in reply.notes => reply.res = InvalidOrExpiredOtp

----------------------------------------------------------------------------
(* C4 - the readiness gate *)

\* C4: a request that enters the /send-otp handler while isClientReady is false
\* is answered ChannelNotReady (500), whatever its phone number, and the step
\* constructs no document, saves none and calls sendMessage for none: the
\* collection is the same before and after.
C4_NotReadyRejected ==
    [][HandlerStep /\ ~isClientReady =>
          reply'.res = ChannelNotReady /\ NoIssueEffect]_vars

\* C4 witness: a send request was answered ChannelNotReady while documents of
\* earlier requests were stored
C4_Witness ==
    /\ reply.op = "send"
    /\ reply.res = ChannelNotReady
    /\ store # {}

----------------------------------------------------------------------------
(* C5 - dispatch only while ready *)

\* C5: at every moment a send request calls client.sendMessage, isClientReady
\* is true.
C5_DispatchOnlyWhileReady ==
    [][~(outbox' \subseteq outbox) => isClientReady]_vars

----------------------------------------------------------------------------
(* C6 - the order of the preconditions *)

\* C6 (as stated): a send request with an empty or missing phoneNumber that
\* reaches the handler is answered "Phone number is required" (400) in every
\* readiness state.
C6_FalsyPhoneAlwaysInvalidInput ==
    reply.op = "send" /\ "falsy" \in reply.notes /\ reply.res # RateLimitExceeded
        => reply.res = PhoneRequired

\* C6 (amended): a send request with an empty or missing phoneNumber that
\* reaches the handler is answered "Phone number is required" (400) when
\* isClientReady is true and ChannelNotReady (500) when it is false; either way
\* no document is constructed and no dispatch is requested.
C6_FalsyPhoneRejected ==
    [][HandlerStep /\ "falsy" \in reply'.notes =>
          /\ reply'.res = (IF isClientReady THEN PhoneRequired ELSE ChannelNotReady)
          /\ NoIssueEffect]_vars

\* C6 witness: a request without a phone number was answered ChannelNotReady
C6_Witness ==
    /\ reply.op = "send"
    /\ "falsy" \in reply.notes
    /\ reply.res = ChannelNotReady

----------------------------------------------------------------------------
(* C7 - no rollback *)

\* C7: when client.sendMessage rejects (either error response), the handler
\* removes nothing from the collection: the document saved for the request is
\* stored after the response exactly as it was before.
C7_NoRollback ==
    [][reply'.res \in {RecipientNotRegistered, DispatchFailed} => store' = store]_vars

\* C7 witness: a validate request was answered with success for a document
\* whose dispatch had been rejected
C7_Witness ==
    /\ reply.res = ValidateSuccess("")
    /\ "undelivered" \in reply.notes

----------------------------------------------------------------------------
(* C8 - exact match on phone number and code *)

\* C8: when OTP.findOne settles for a validate(p, c) and no stored document has
\* exactly phone number p and code c, the request goes no further: it deletes
\* nothing and the response it writes, if the lookup resolved, is
\* InvalidOrExpiredOtp.
C8_NoMatchInvalid ==
    [][\A v \in ValidateSlots :
          /\ validate[v].pc = "find"
          /\ validate'[v].pc # "find"
          /\ ~\E rec \in store : /\ rec.phoneNumber = validate[v].phoneNumber
                                 /\ rec.otp = validate[v].otp
          => /\ validate'[v].pc = "idle"
             /\ store' = store
             /\ reply'.res \in {InvalidOrExpiredOtp, NoResponse}]_vars

\* C8 witness: a validate request was answered InvalidOrExpiredOtp while its
\* code was stored under another phone number
C8_Witness ==
    /\ reply.res = InvalidOrExpiredOtp
    /\ "other" \in reply.notes

----------------------------------------------------------------------------
(* C9 - the limiter *)

\* C9: every request to /send-otp adds one to its source's count, whatever
\* becomes of it, and the count is cleared only when the window ends; the
\* request that brings the count to 15 or less reaches the handler, the one
\* that brings it to 16 is answered RateLimitExceeded (429).
C9_FifteenPerWindow ==
    [][/\ hits' # hits => SendOtpStep \/ (now' # now /\ \A s \in Sources : hits'[s] = 0)
       /\ \A src \in Sources :
             hits'[src] = hits[src] + 1 =>
                /\ hits'[src] <= 15 => reply'.res # RateLimitExceeded
                /\ hits'[src] >= 16 => reply'.res = RateLimitExceeded /\ NoIssueEffect]_vars

\* C9 witness: the sixteenth request of one source was turned away while
\* another source was still under its limit, after requests of the first
\* source had been answered in the handler
C9_Witness ==
    /\ reply.res = RateLimitExceeded
    /\ \E s1, s2 \in Sources : hits[s1] = 16 /\ hits[s2] = 1
    /\ nextId > 1

----------------------------------------------------------------------------
(* C10 - no code in a response *)

\* C10: no response written by /send-otp or /validate-otp, success or error,
\* contains a code the generator can produce.
C10_NoCodeInResponse ==
    \A c \in Codes : ~Includes(reply.res.text, c)

\* C10 witness: a send request was answered with success while the document
\* with its code was stored
C10_Witness ==
    /\ reply.op = "send"
    /\ reply.res.status = 200
    /\ \E rec \in store : outcome[rec.id] = "ok"

----------------------------------------------------------------------------
(* C11 - the range and the format of the code *)

\* C11: every code the generator produces - held by a send request in flight,
\* stored in a document or quoted in a message handed to client.sendMessage -
\* is a string of exactly 6 characters, each a decimal digit, whose value is an
\* integer from 100000 to 999999, for every value of Math.random() in [0, 1).
C11_SixDigitCode ==
    LET Digits == <<"0", "1", "2", "3", "4", "5", "6", "7", "8", "9">>
        DigitOf(ch) == CHOOSE d \in 0..9 : Digits[d + 1] = ch
        IsDigit(ch) == \E d \in 0..9 : Digits[d + 1] = ch
        Char(c, j) == SubSeq(c, j, j)
        Value(c) == DigitOf(Char(c, 1)) * 100000 + DigitOf(Char(c, 2)) * 10000
                      + DigitOf(Char(c, 3)) * 1000 + DigitOf(Char(c, 4)) * 100
                      + DigitOf(Char(c, 5)) * 10 + DigitOf(Char(c, 6))
        Good(c) == /\ Len(c) = 6
                   /\ \A j \in 1..6 : IsDigit(Char(c, j))
                   /\ Value(c) >= 100000
                   /\ Value(c) <= 999999
    IN  /\ \A i \in SendSlots : send[i].pc # "idle" => Good(send[i].otp)
        /\ \A rec \in store : Good(rec.otp)
        /\ \A m \in outbox : m.text = "Your OTP is: " \o SubSeq(m.text, 14, Len(m.text))
                                /\ Good(SubSeq(m.text, 14, Len(m.text)))

\* C11 witness: the codes of Math.random() = 0 and of the largest value below
\* 1 are both stored
C11_Witness ==
    /\ \E rec \in store : rec.otp = "100000"
    /\ \E rec \in store : rec.otp = "999999"

----------------------------------------------------------------------------
(* C12 - additive storing, consumption per document *)

\* C12: a save that resolves adds the request's document to the collection
\* and changes no document already there (the collection grows by exactly
\* one, also when documents of the same phone number are stored); a lookup
\* that resolves while a document with the request's phone number and code is
\* stored goes on to the deletion with such a document; and a validation
\* answered with success removes at most the one document it matched and
\* leaves every other document, of that phone number and of others, as it was.
C12_AdditiveAndPerRecord ==
    [][/\ \A i \in SendSlots :
             send[i].pc = "save" /\ send'[i].pc = "send" =>
                /\ store \subseteq store'
                /\ store' \ store = {Document(send[i])}
       /\ \A v \in ValidateSlots :
             /\ validate[v].pc = "find"
             /\ validate'[v].pc # "find"
             /\ reply'.res # NoResponse
             /\ \E rec \in store : Pair(rec) = Pair(validate[v])
             => /\ validate'[v].pc = "delete"
                /\ validate'[v].rec \in store
                /\ Pair(validate'[v].rec) = Pair(validate[v])
       /\ \A v \in ValidateSlots :
             validate[v].pc = "delete" /\ reply'.res = ValidateSuccess("") =>
                store' = store \ {validate[v].rec}]_vars

\* C12 witness: of two documents of one phone number with different codes,
\* both issued with success, one was validated with success and the other is
\* still stored
C12_Witness ==
    /\ reply.res = ValidateSuccess("")
    /\ {"issued", "sibling"} \subseteq reply.notes

----------------------------------------------------------------------------
(* C13 - readiness follows the last client event *)

\* C13 (as stated): a 'ready' event delivered directly after an
\* 'auth_failure' event, with nothing in between, leaves isClientReady false.
C13_ReadyIgnoredAfterAuthFailure ==
    reply.op = "ready" /\ "failed" \in reply.notes => ~isClientReady

\* C13 (amended): isClientReady is false initially; it becomes true only in
\* the 'ready' handler, and every 'ready' event makes it true, also one
\* delivered directly after 'auth_failure'; 'auth_failure' and 'disconnected'
\* make it false.
C13_ReadyFollowsLastEvent ==
    /\ ~isClientReady
    /\ [][/\ isClientReady' /\ ~isClientReady => reply'.op = "ready"
          /\ reply'.op = "ready" => isClientReady'
          /\ reply'.op \in {"auth_failure", "disconnected"} => ~isClientReady']_vars

\* C13 witness: a 'ready' event came directly after 'auth_failure' and the
\* client counts as ready
C13_Witness ==
    /\ reply.op = "ready"
    /\ "failed" \in reply.notes
    /\ isClientReady

----------------------------------------------------------------------------
(* C14 - a request the limiter rejects has no effect *)

\* C14: the request that takes its source's count past max is answered
\* RateLimitExceeded by the limiter and the route handler does not run for
\* it: no document is constructed or saved, sendMessage is called for none,
\* and the collection, the calls in flight, the requests in flight and
\* isClientReady are the same before and after.
C14_LimitedNoSideEffects ==
    [][\A src \in Sources :
          hits'[src] = hits[src] + 1 /\ Limited(hits'[src]) =>
             /\ reply'.res = RateLimitExceeded
             /\ NoIssueEffect
             /\ isClientReady' = isClientReady
             /\ validate' = validate
             /\ history' = history]_vars

\* C14 witness: a request with a phone number, made while the client was
\* ready and documents of earlier requests were stored, was turned away
C14_Witness ==
    /\ reply.res = RateLimitExceeded
    /\ "falsy" \notin reply.notes
    /\ isClientReady
    /\ store # {}

----------------------------------------------------------------------------
(* C15 - no retry *)

\* C15: a send request saves at most one document and calls
\* client.sendMessage at most once: the collection and the calls in flight
\* grow only in the step in which the request's save resolves, each by
\* exactly one element carrying the request's own fresh _id, and once the
\* call settles, resolved or rejected, the request ends with no call of its
\* own made or left in flight.
C15_NoRetry ==
    [][/\ ~(store' \subseteq store) \/ ~(outbox' \subseteq outbox) =>
             \E i \in SendSlots :
                /\ send[i].pc = "save"
                /\ send'[i].pc = "send"
                /\ store' \ store = {Document(send[i])}
                /\ outbox' \ outbox = {Dispatch(send[i])}
                /\ \A rec \in store : rec.id < send[i].id
                /\ send[i].id < nextId
       /\ \A i \in SendSlots :
             send[i].pc = "send" /\ send'[i] # send[i] =>
                /\ send'[i].pc = "idle"
                /\ reply'.op = "send"
                /\ \A m \in outbox' : m.id # send[i].id
                /\ store' \subseteq store]_vars

\* C15 witness: a request whose dispatch was rejected has ended; its
\* document is stored and no call is in flight
C15_Witness ==
    /\ reply.res \in {RecipientNotRegistered, DispatchFailed}
    /\ outbox = {}
    /\ \A i \in SendSlots : send[i].pc = "idle"
    /\ \E rec \in store : outcome[rec.id] = "failed"

----------------------------------------------------------------------------
(* C16 - the document is stored before the message is handed over *)

\* C16: whenever a send request calls client.sendMessage, the call is made
\* by a request whose save has resolved, and the collection then holds the
\* document of that request: its _id, the phone number the message is
\* addressed to and the code the message quotes.
C16_StoredBeforeDispatch ==
    [][\A m \in outbox' \ outbox :
          /\ \E i \in SendSlots : send[i].pc = "save" /\ send[i].id = m.id
          /\ \E rec \in store' : /\ rec.id = m.id
                                  /\ m.to = FormattedNumber(rec.phoneNumber)
                                  /\ m.text = OtpMessage(rec.otp)]_vars

\* C16 witness: a message is in flight and the document with its code is
\* stored
C16_Witness ==
    \E m \in outbox : \E rec \in store :
        /\ rec.id = m.id
        /\ m.text = OtpMessage(rec.otp)
        /\ \E i \in SendSlots : send[i].pc = "send" /\ send[i].id = m.id

----------------------------------------------------------------------------
(* C17 - every request is answered *)

\* C17: every request whose handler has ended - a send request the limiter
\* let through, or a validate request - was answered with a response, also
\* when the save, the lookup or the deletion it awaited rejected.
C17_EveryRequestAnswered ==
    reply.op \in {"send", "validate"} => reply.res # NoResponse

----------------------------------------------------------------------------
(* C18 - what a failed validation and the requests leave alone *)

\* C18: a validate request answered "Phone number and OTP are required" or
\* InvalidOrExpiredOtp leaves the collection as it was, and isClientReady
\* changes only in a step of the 'ready', 'auth_failure' or 'disconnected'
\* handler: no step of a send or validate request changes it.
C18_FailedValidateAndReadinessFrame ==
    [][/\ reply'.res \in {ValidateInputRequired, InvalidOrExpiredOtp} => store' = store
       /\ isClientReady' # isClientReady =>
             reply'.op \in {"ready", "auth_failure", "disconnected"}
       /\ reply'.op \notin {"ready", "auth_failure", "disconnected"} =>
             isClientReady' = isClientReady]_vars

\* C18 witness: a validate request was answered InvalidOrExpiredOtp while
\* the client was ready and a document of its phone number, with another
\* code, was stored
C18_Witness ==
    /\ reply.op = "validate"
    /\ reply.res = InvalidOrExpiredOtp
    /\ "miscoded" \in reply.notes
    /\ isClientReady
    /\ store # {}

====
